---- MODULE Spec2Model ----
(***************************************************************************)
(* A model of gon: the recursive-descent parser (src/src/parser.rs), the   *)
(* value tree and its two spellers (src/src/value.rs) and the JSON bridge  *)
(* (src/src/json.rs).                                                      *)
(*                                                                         *)
(* Text is a sequence of one-character strings.  A token is a record       *)
(* [kind, text, loc]; loc is the offset of the token's first character.    *)
(* A Value is a record tagged by its field t.  An object's map is the      *)
(* sequence of its [k, v] entries in iteration order, keys unique.         *)
(***************************************************************************)
EXTENDS Integers, Sequences, FiniteSets, TLC

VARIABLES
    pc,       \* position of the driver: which operation was applied last
    tokens,   \* the token sequence handed to the parser
    value,    \* the Value an operation starts from
    shape,    \* how the token sequence was laid out (separator layout, cut, extra token)
    config,   \* the SpellConfig of a pretty-spelling
    text,     \* the text a speller produced
    json,     \* the JSON value of the bridge
    result,   \* the outcome of the last operation
    run       \* the parser in mid-run: its call stack, cursor and return register

vars == <<pc, tokens, value, shape, config, text, json, result, run>>

----------------------------------------------------------------------------
(* Characters *)

DQ == "\""
NL == "\n"
TAB == "\t"
SP == " "

LowerLetters == {"a", "b", "e", "f", "l", "n", "o", "r", "s", "t", "u"}
UpperLetters == {"N", "R"}
Letters == LowerLetters \cup UpperLetters
Digits == {"0", "1", "2", "3", "4", "5", "6", "7", "8", "9"}
Whitespace == {SP, NL, TAB}

\* char::to_lowercase on the letters of the model
LowerChar(c) == CASE c = "N" -> "n" [] c = "R" -> "r" [] OTHER -> c

\* str::to_lowercase
ToLowercase(s) == [i \in 1..Len(s) |-> LowerChar(s[i])]

kwNone == <<"N", "o", "n", "e">>
kwnone == <<"n", "o", "n", "e">>
kwnull == <<"n", "u", "l", "l">>
kwtrue == <<"t", "r", "u", "e">>
kwfalse == <<"f", "a", "l", "s", "e">>
kwr == <<"r">>

----------------------------------------------------------------------------
(* Tokens: klex::Token with its location (klex::RichToken) *)

Tok(kind, txt, loc) == [kind |-> kind, text |-> txt, loc |-> loc]

\* RichToken::inner: the token without its location
Inner(t) == [kind |-> t.kind, text |-> t.text]

\* the punctuation the grammar uses, by character
PunctKind(c) ==
    CASE c = "{" -> "LBrace"
      [] c = "}" -> "RBrace"
      [] c = "[" -> "LBrack"
      [] c = "]" -> "RBrack"
      [] c = ":" -> "Colon"
      [] c = "," -> "Comma"
      [] c = "-" -> "Dash"

PunctChars == {"{", "}", "[", "]", ":", ",", "-"}

PunctChar(kind) == CHOOSE c \in PunctChars : PunctKind(c) = kind

\* klex::Token::spelling: the text a token is written as
Spelling(t) ==
    CASE t.kind = "Str" -> <<DQ>> \o t.text \o <<DQ>>
      [] t.kind \in {"Sym", "Num", "Comment"} -> t.text
      [] OTHER -> <<PunctChar(t.kind)>>

\* Token::Str(s).spelling()
StrSpelling(s) == <<DQ>> \o s \o <<DQ>>

\* Loc::start_of_file
StartOfFile == [off |-> 0]

LocAt(off) == [off |-> off]

----------------------------------------------------------------------------
(* The tokenizer the parser and the key probe call: klex::Lexer::lex.      *)
(* Whitespace separates tokens; a double quote opens a string literal that *)
(* runs to the next double quote; a digit opens a number literal; a letter *)
(* or underscore opens a symbol; any other character is an error.          *)

NumChars == Digits \cup {"_", "."}
SymChars == Letters \cup Digits \cup {"_"}

\* the first index >= i of src whose character is not in set (Len(src)+1 if none)
RECURSIVE RunEnd(_, _, _)
RunEnd(src, i, set) ==
    IF i > Len(src) \/ src[i] \notin set THEN i ELSE RunEnd(src, i + 1, set)

\* the first index >= i of src holding a double quote (0 if none)
RECURSIVE QuoteAt(_, _)
QuoteAt(src, i) ==
    IF i > Len(src) THEN 0
    ELSE IF src[i] = DQ THEN i
    ELSE QuoteAt(src, i + 1)

RECURSIVE LexFrom(_, _, _)
LexFrom(src, i, acc) ==
    IF i > Len(src) THEN [ok |-> TRUE, toks |-> acc]
    ELSE LET c == src[i] IN
        IF c \in Whitespace THEN LexFrom(src, i + 1, acc)
        ELSE IF c = DQ THEN
            LET j == QuoteAt(src, i + 1) IN
            IF j = 0 THEN [ok |-> FALSE, toks |-> <<>>]
            ELSE LexFrom(src, j + 1,
                         Append(acc, Tok("Str", SubSeq(src, i + 1, j - 1), LocAt(i - 1))))
        ELSE IF c \in Digits THEN
            LET j == RunEnd(src, i, NumChars) IN
            LexFrom(src, j, Append(acc, Tok("Num", SubSeq(src, i, j - 1), LocAt(i - 1))))
        ELSE IF c \in Letters \cup {"_"} THEN
            LET j == RunEnd(src, i, SymChars) IN
            LexFrom(src, j, Append(acc, Tok("Sym", SubSeq(src, i, j - 1), LocAt(i - 1))))
        ELSE IF c \in PunctChars THEN
            LexFrom(src, i + 1, Append(acc, Tok(PunctKind(c), <<>>, LocAt(i - 1))))
        ELSE [ok |-> FALSE, toks |-> <<>>]

Lex(src) == LexFrom(src, 1, <<>>)

----------------------------------------------------------------------------
(* Values: enum Value *)

VNone == [t |-> "None"]
VBool(b) == [t |-> "Bool", b |-> b]
VStr(s, raw) == [t |-> "Str", s |-> s, raw |-> raw]
VNum(s) == [t |-> "Num", s |-> s]
VObj(m) == [t |-> "Obj", m |-> m]
VList(xs) == [t |-> "List", xs |-> xs]

Entry(k, v) == [k |-> k, v |-> v]

MapNew == <<>>

\* MapT::insert: a key already present keeps its place and takes the new value
MapInsert(m, k, v) ==
    IF \E i \in 1..Len(m) : m[i].k = k
    THEN [i \in 1..Len(m) |-> IF m[i].k = k THEN Entry(k, v) ELSE m[i]]
    ELSE Append(m, Entry(k, v))

----------------------------------------------------------------------------
(* Errors: enum GonError *)

LexerErr == [kind |-> "LexerErr"]
NoValueErr == [kind |-> "NoValueErr"]
InvalidValue(sym, loc) == [kind |-> "InvalidValue", sym |-> sym, loc |-> loc]
UnexpectedToken(tok, loc) == [kind |-> "UnexpectedToken", tok |-> tok, loc |-> loc]
MissingColon(key, loc) == [kind |-> "MissingColon", key |-> key, loc |-> loc]
MissingValue(key, loc) == [kind |-> "MissingValue", key |-> key, loc |-> loc]
UnclosedDelimiter(ch, loc) == [kind |-> "UnclosedDelimiter", ch |-> ch, loc |-> loc]
LeftoverTokens(tok, loc) == [kind |-> "LeftoverTokens", tok |-> tok, loc |-> loc]

NoErr == [kind |-> "none"]
NoVal == [t |-> "absent"]

\* Result<Value, GonError> together with the cursor the call leaves behind
Ok(v, it) == [ok |-> TRUE, val |-> v, err |-> NoErr, it |-> it]
Err(e, it) == [ok |-> FALSE, val |-> NoVal, err |-> e, it |-> it]

----------------------------------------------------------------------------
(* The cursor: struct TokenIter.  pos counts the tokens consumed so far,   *)
(* loc is the location of the token consumed last.                         *)

NewTokenIter == [pos |-> 0, loc |-> StartOfFile]

HasNext(toks, it) == it.pos < Len(toks)

\* TokenIter::peek, where a token is left
Peek(toks, it) == toks[it.pos + 1]

\* whether the token TokenIter::peek shows has the given kind
PeekIs(toks, it, kind) == HasNext(toks, it) /\ Peek(toks, it).kind = kind

\* Iterator::next for TokenIter: the cursor after the call
Advance(toks, it) ==
    IF HasNext(toks, it)
    THEN [pos |-> it.pos + 1, loc |-> toks[it.pos + 1].loc]
    ELSE it

\* consume_optional_comma, were it to skip every comma in a row
RECURSIVE consume_commas(_, _)
consume_commas(toks, it) ==
    IF PeekIs(toks, it, "Comma") THEN consume_commas(toks, Advance(toks, it)) ELSE it

\* consume_optional_comma
consume_optional_comma(toks, it) ==
    IF PeekIs(toks, it, "Comma") THEN Advance(toks, it) ELSE it

----------------------------------------------------------------------------
(* The parser: next_value, its two loops, next_key_value_pair, parse *)

RECURSIVE next_value(_, _)
RECURSIVE ObjLoop(_, _, _, _)
RECURSIVE ListLoop(_, _, _, _)
RECURSIVE next_key_value_pair(_, _)

\* an outcome of next_key_value_pair: Ok(Some((key, value))), Ok(None) or Err(e)
PairSome(k, v, it) == [ok |-> TRUE, some |-> TRUE, key |-> k, val |-> v, err |-> NoErr, it |-> it]
PairNone(it) == [ok |-> TRUE, some |-> FALSE, key |-> <<>>, val |-> NoVal, err |-> NoErr, it |-> it]
PairErr(e, it) == [ok |-> FALSE, some |-> FALSE, key |-> <<>>, val |-> NoVal, err |-> e, it |-> it]

\* the Sym arm of next_value
SymValue(toks, first, it) ==
    LET sym_lower == ToLowercase(first.text) IN
    IF sym_lower = kwnone \/ sym_lower = kwnull THEN Ok(VNone, it)
    ELSE IF sym_lower = kwtrue THEN Ok(VBool(TRUE), it)
    ELSE IF sym_lower = kwfalse THEN Ok(VBool(FALSE), it)
    ELSE IF sym_lower = kwr THEN
        IF PeekIs(toks, it, "Str")
        THEN Ok(VStr(Peek(toks, it).text, TRUE), Advance(toks, it))
        ELSE Err(InvalidValue(first.text, first.loc), it)
    ELSE Err(InvalidValue(first.text, first.loc), it)

\* the Dash arm of next_value, were it to take the following token with next()
DashValueConsuming(toks, first, it) ==
    IF PeekIs(toks, it, "Num")
    THEN Ok(VNum(<<"-">> \o Peek(toks, it).text), Advance(toks, it))
    ELSE Err(UnexpectedToken(Inner(first), first.loc), Advance(toks, it))

\* the Dash arm of next_value
DashValue(toks, first, it) ==
    IF PeekIs(toks, it, "Num")
    THEN Ok(VNum(<<"-">> \o Peek(toks, it).text), Advance(toks, it))
    ELSE Err(UnexpectedToken(Inner(first), first.loc), it)

next_value(toks, it0) ==
    IF ~HasNext(toks, it0) THEN Err(NoValueErr, it0)
    ELSE LET first_token == Peek(toks, it0)
             it == Advance(toks, it0)
         IN CASE first_token.kind = "Sym" -> SymValue(toks, first_token, it)
              [] first_token.kind = "Str" -> Ok(VStr(first_token.text, FALSE), it)
              [] first_token.kind = "Num" -> Ok(VNum(first_token.text), it)
              [] first_token.kind = "Dash" -> DashValue(toks, first_token, it)
              [] first_token.kind = "LBrace" -> ObjLoop(toks, it, MapNew, it.loc)
              [] first_token.kind = "LBrack" -> ListLoop(toks, it, <<>>, it.loc)
              [] OTHER -> Err(UnexpectedToken(Inner(first_token), first_token.loc), it)

\* the loop of the LBrace arm, were it to report the cursor's location
ObjLoopCursorLoc(toks, it, map, opening_loc) ==
    IF PeekIs(toks, it, "RBrace") THEN Ok(VObj(map), Advance(toks, it))
    ELSE LET p == next_key_value_pair(toks, it) IN
        IF ~p.ok THEN Err(p.err, p.it)
        ELSE IF ~p.some THEN Err(UnclosedDelimiter("}", p.it.loc), p.it)
        ELSE ObjLoop(toks, consume_optional_comma(toks, p.it),
                     MapInsert(map, p.key, p.val), opening_loc)

\* the loop of the LBrace arm, entered with the map built so far
ObjLoop(toks, it, map, opening_loc) ==
    IF PeekIs(toks, it, "RBrace") THEN Ok(VObj(map), Advance(toks, it))
    ELSE LET p == next_key_value_pair(toks, it) IN
        IF ~p.ok THEN Err(p.err, p.it)
        ELSE IF ~p.some THEN Err(UnclosedDelimiter("}", opening_loc), p.it)
        ELSE ObjLoop(toks, consume_optional_comma(toks, p.it),
                     MapInsert(map, p.key, p.val), opening_loc)

\* the loop of the LBrack arm, were an element's error passed on as it is
ListLoopPropagating(toks, it, list, opening_loc) ==
    IF PeekIs(toks, it, "RBrack") THEN Ok(VList(list), Advance(toks, it))
    ELSE LET r == next_value(toks, it) IN
        IF ~r.ok THEN Err(r.err, r.it)
        ELSE ListLoop(toks, consume_optional_comma(toks, r.it),
                      Append(list, r.val), opening_loc)

\* the loop of the LBrack arm, entered with the list built so far
ListLoop(toks, it, list, opening_loc) ==
    IF PeekIs(toks, it, "RBrack") THEN Ok(VList(list), Advance(toks, it))
    ELSE LET r == next_value(toks, it) IN
        IF ~r.ok THEN Err(UnclosedDelimiter("]", opening_loc), r.it)
        ELSE ListLoop(toks, consume_optional_comma(toks, r.it),
                      Append(list, r.val), opening_loc)

\* the key a token at key position stands for
KeyOf(token) ==
    IF token.kind \in {"Str", "Num", "Sym"} THEN token.text ELSE Spelling(token)

next_key_value_pair(toks, it0) ==
    IF ~HasNext(toks, it0) THEN PairNone(it0)
    ELSE LET token == Peek(toks, it0)
             it1 == Advance(toks, it0)
             key == KeyOf(token)
             it2 == Advance(toks, it1)
         IN IF token.kind = "Comment"
            THEN PairErr(UnexpectedToken(Inner(token), it1.loc), it1)
            ELSE IF ~PeekIs(toks, it1, "Colon")
            THEN PairErr(MissingColon(key, it2.loc), it2)
            ELSE LET r == next_value(toks, it2) IN
                IF ~r.ok THEN PairErr(MissingValue(key, r.it.loc), r.it)
                ELSE PairSome(key, r.val, r.it)

\* parse, were it to report the leftover token without consuming it
parse_peeking(toks) ==
    LET r == next_value(toks, NewTokenIter) IN
    IF ~r.ok THEN r
    ELSE IF HasNext(toks, r.it)
    THEN Err(LeftoverTokens(Inner(Peek(toks, r.it)), r.it.loc), r.it)
    ELSE r

\* parse, from the tokens on
parse(toks) ==
    LET r == next_value(toks, NewTokenIter) IN
    IF ~r.ok THEN r
    ELSE IF HasNext(toks, r.it)
    THEN Err(LeftoverTokens(Inner(Peek(toks, r.it)), Advance(toks, r.it).loc),
             Advance(toks, r.it))
    ELSE r

\* parse_str: tokenize, then parse
parse_str(src) ==
    LET lexed == Lex(src) IN
    IF ~lexed.ok THEN Err(LexerErr, NewTokenIter) ELSE parse(lexed.toks)

----------------------------------------------------------------------------
(* Minimal spelling: Value::min_spell and key_needs_quoting *)

\* key_needs_quoting: probe the key with the tokenizer
key_needs_quoting(key) ==
    LET lexer_result == Lex(key) IN
    IF lexer_result.ok THEN Len(lexer_result.toks) > 1 ELSE TRUE

\* the key as both spellers write it
KeyText(k) == IF key_needs_quoting(k) THEN <<DQ>> \o k \o <<DQ>> ELSE k

RECURSIVE min_spell(_)
RECURSIVE MinEntries(_, _)
RECURSIVE MinElems(_, _)

\* the loop of the Obj arm of min_spell, from entry i on
MinEntries(m, i) ==
    IF i > Len(m) THEN <<>>
    ELSE KeyText(m[i].k) \o <<":">> \o min_spell(m[i].v)
         \o (IF i # Len(m) THEN <<",">> ELSE <<>>)
         \o MinEntries(m, i + 1)

\* the loop of the List arm of min_spell, from element i on
MinElems(xs, i) ==
    IF i > Len(xs) THEN <<>>
    ELSE min_spell(xs[i])
         \o (IF i # Len(xs) THEN <<",">> ELSE <<>>)
         \o MinElems(xs, i + 1)

min_spell(v) ==
    CASE v.t = "None" -> kwNone
      [] v.t = "Str" -> IF v.raw THEN <<"r">> \o StrSpelling(v.s) ELSE StrSpelling(v.s)
      [] v.t = "Num" -> v.s
      [] v.t = "Bool" -> IF v.b THEN kwtrue ELSE kwfalse
      [] v.t = "Obj" -> <<"{">> \o MinEntries(v.m, 1) \o <<"}">>
      [] v.t = "List" -> <<"[">> \o MinElems(v.xs, 1) \o <<"]">>

----------------------------------------------------------------------------
(* Pretty spelling: Value::spell, Value::spell0 and their helpers *)

\* struct SpellConfig
SpellConfig(amount, ch, commas, width) ==
    [indent_amount |-> amount, indent_char |-> ch, trailing_commas |-> commas,
     max_width |-> width]

\* gen_indent
gen_indent(amount, cfg) == [i \in 1..amount |-> cfg.indent_char]

\* squash_whitespace: every run of two or more of space, tab, CR, LF becomes one space
RECURSIVE SquashFrom(_, _)
SquashFrom(input, i) ==
    IF i > Len(input) THEN <<>>
    ELSE IF input[i] \in Whitespace THEN
        LET j == RunEnd(input, i, Whitespace) IN
        (IF j - i >= 2 THEN <<SP>> ELSE <<input[i]>>) \o SquashFrom(input, j)
    ELSE <<input[i]>> \o SquashFrom(input, i + 1)

squash_whitespace(input) == SquashFrom(input, 1)

(* textwrap::wrap as spell0 calls it: the text is cut into words at spaces *)
(* (a word carries the space after it), a word wider than a continuation   *)
(* line is broken, lines are filled first-fit, the space at a line's end is *)
(* dropped and every line after the first starts with the indent.          *)

Word(w, ws) == [w |-> w, ws |-> ws]

RECURSIVE SplitWords(_, _)
SplitWords(txt, i) ==
    IF i > Len(txt) THEN <<>>
    ELSE LET j == RunEnd(txt, i, (Letters \cup Digits \cup PunctChars \cup {DQ, "_", ".", NL, TAB}))
             k == RunEnd(txt, j, {SP})
         IN <<Word(SubSeq(txt, i, j - 1), k - j)>> \o SplitWords(txt, k)

\* a word cut into pieces of at most w characters, the last one keeping the space
RECURSIVE BreakWord(_, _)
BreakWord(word, w) ==
    IF Len(word.w) <= w THEN <<word>>
    ELSE <<Word(SubSeq(word.w, 1, w), 0)>>
         \o BreakWord(Word(SubSeq(word.w, w + 1, Len(word.w)), word.ws), w)

RECURSIVE BreakWords(_, _, _)
BreakWords(words, i, w) ==
    IF i > Len(words) THEN <<>>
    ELSE BreakWord(words[i], w) \o BreakWords(words, i + 1, w)

Spaces(n) == [i \in 1..n |-> SP]

Max(a, b) == IF a >= b THEN a ELSE b

\* first-fit: cur is the line being filled, gap the space after its last word,
\* used its width with that space, n the number of lines already closed
RECURSIVE FirstFit(_, _, _, _, _, _, _, _)
FirstFit(words, i, cur, gap, used, n, width, indent) ==
    IF i > Len(words) THEN <<cur>>
    ELSE LET word == words[i]
             line_width == IF n = 0 THEN width ELSE Max(width - Len(indent), 0)
         IN IF cur # <<>> /\ used + Len(word.w) > line_width
            THEN <<cur>> \o FirstFit(words, i + 1, word.w, word.ws,
                                     Len(word.w) + word.ws, n + 1, width, indent)
            ELSE FirstFit(words, i + 1, cur \o Spaces(IF cur = <<>> THEN 0 ELSE gap) \o word.w,
                          word.ws, used + Len(word.w) + word.ws, n, width, indent)

\* textwrap::wrap(text, Options::new(width).subsequent_indent(indent)): the lines
Wrap(txt, width, indent) ==
    LET words == BreakWords(SplitWords(txt, 1), 1, Max(width - Len(indent), 1))
        lines == FirstFit(words, 1, <<>>, 0, 0, 0, width, indent)
    IN [i \in 1..Len(lines) |-> IF i = 1 THEN lines[i] ELSE indent \o lines[i]]

\* the loop that writes the wrapped lines: a line break after each but the last
RECURSIVE JoinLines(_, _)
JoinLines(lines, i) ==
    IF i > Len(lines) THEN <<>>
    ELSE lines[i] \o (IF i = Len(lines) THEN <<>> ELSE <<NL>>) \o JoinLines(lines, i + 1)

\* the Str arm of spell0
SpellStr(v, current_indent, cfg) ==
    IF cfg.max_width = 0 THEN StrSpelling(v.s)
    ELSE IF v.raw THEN <<"r">> \o StrSpelling(v.s)
    ELSE LET raw_str == squash_whitespace(StrSpelling(v.s))
             wrapped_lines == Wrap(raw_str, cfg.max_width,
                                   gen_indent(current_indent + cfg.indent_amount, cfg))
         IN JoinLines(wrapped_lines, 1)

RECURSIVE spell0(_, _, _)
RECURSIVE SpellEntries(_, _, _, _)
RECURSIVE SpellElems(_, _, _, _, _)

\* the loop of the Obj arm of spell0, from entry i on
SpellEntries(m, i, new_indent, cfg) ==
    IF i > Len(m) THEN <<>>
    ELSE gen_indent(new_indent, cfg)
         \o KeyText(m[i].k) \o <<":", SP>>
         \o spell0(m[i].v, new_indent, cfg)
         \o (IF ~cfg.trailing_commas /\ i = Len(m) THEN <<NL>> ELSE <<",", NL>>)
         \o SpellEntries(m, i + 1, new_indent, cfg)

\* the one-line test of the List arm of spell0
IsOneline(xs) ==
    Len(xs) <= 5 /\ ~\E i \in 1..Len(xs) : xs[i].t \in {"List", "Obj"}

\* the loop of the List arm of spell0, from element i on
SpellElems(xs, i, oneline, current_indent, cfg) ==
    IF i > Len(xs) THEN <<>>
    ELSE (IF oneline
          THEN spell0(xs[i], 0, cfg)
               \o (IF i # Len(xs) THEN <<",", SP>> ELSE <<>>)
          ELSE gen_indent(current_indent + cfg.indent_amount, cfg)
               \o spell0(xs[i], current_indent + cfg.indent_amount, cfg)
               \o (IF cfg.trailing_commas \/ i # Len(xs) THEN <<",">> ELSE <<>>)
               \o <<NL>>)
         \o SpellElems(xs, i + 1, oneline, current_indent, cfg)

spell0(v, current_indent, cfg) ==
    CASE v.t = "None" -> kwNone
      [] v.t = "Str" -> SpellStr(v, current_indent, cfg)
      [] v.t = "Num" -> v.s
      [] v.t = "Bool" -> IF v.b THEN kwtrue ELSE kwfalse
      [] v.t = "Obj" ->
            <<"{", NL>>
            \o SpellEntries(v.m, 1, current_indent + cfg.indent_amount, cfg)
            \o gen_indent(current_indent, cfg) \o <<"}">>
      [] v.t = "List" ->
            IF v.xs = <<>> THEN <<"[", "]">>
            ELSE LET oneline == IsOneline(v.xs) IN
                (IF oneline THEN <<"[">> ELSE <<"[", NL>>)
                \o SpellElems(v.xs, 1, oneline, current_indent, cfg)
                \o (IF ~oneline THEN gen_indent(current_indent, cfg) ELSE <<>>)
                \o <<"]">>

\* Value::spell
spell(v, cfg) == spell0(v, 0, cfg)

----------------------------------------------------------------------------
(* Numbers as text: decimal digit strings stand for integers of any size *)

DigitVal(c) ==
    CASE c = "0" -> 0 [] c = "1" -> 1 [] c = "2" -> 2 [] c = "3" -> 3 [] c = "4" -> 4
      [] c = "5" -> 5 [] c = "6" -> 6 [] c = "7" -> 7 [] c = "8" -> 8 [] c = "9" -> 9

DigitChar(d) == CHOOSE c \in Digits : DigitVal(c) = d

AllDigits(s) == \A i \in 1..Len(s) : s[i] \in Digits

\* a digit string without its leading zeros (the empty string is zero)
RECURSIVE StripZeros(_)
StripZeros(ds) ==
    IF ds # <<>> /\ Head(ds) = "0" THEN StripZeros(Tail(ds)) ELSE ds

\* a digit string without its trailing zeros
RECURSIVE StripTrailingZeros(_)
StripTrailingZeros(ds) ==
    IF ds # <<>> /\ ds[Len(ds)] = "0"
    THEN StripTrailingZeros(SubSeq(ds, 1, Len(ds) - 1))
    ELSE ds

\* a < b for digit strings read from the left, the shorter one padded with zeros
RECURSIVE LexLess(_, _)
LexLess(a, b) ==
    IF b = <<>> THEN FALSE
    ELSE IF a = <<>> THEN StripZeros(b) # <<>>
    ELSE IF Head(a) # Head(b) THEN DigitVal(Head(a)) < DigitVal(Head(b))
    ELSE LexLess(Tail(a), Tail(b))

\* a <= b for the magnitudes of two digit strings without leading zeros
MagLeq(a, b) ==
    \/ Len(a) < Len(b)
    \/ Len(a) = Len(b) /\ ~LexLess(b, a)

\* 2^127, 2^64 - 1 and 2^63: the bounds of i128, u64 and i64
I128MinMag == <<"1", "7", "0", "1", "4", "1", "1", "8", "3", "4", "6", "0", "4", "6", "9", "2", "3", "1", "7", "3", "1", "6", "8", "7", "3", "0", "3", "7", "1", "5", "8", "8", "4", "1", "0", "5", "7", "2", "8">>
U64Max == <<"1", "8", "4", "4", "6", "7", "4", "4", "0", "7", "3", "7", "0", "9", "5", "5", "1", "6", "1", "5">>
I64MinMag == <<"9", "2", "2", "3", "3", "7", "2", "0", "3", "6", "8", "5", "4", "7", "7", "5", "8", "0", "8">>

\* the magnitude of a digit string without leading zeros, less one (magnitude > 0)
RECURSIVE MagPred(_)
MagPred(ds) ==
    LET n == Len(ds) IN
    IF ds[n] = "0"
    THEN MagPred(SubSeq(ds, 1, n - 1)) \o <<"9">>
    ELSE SubSeq(ds, 1, n - 1) \o <<DigitChar(DigitVal(ds[n]) - 1)>>

\* a small natural number from its digits
RECURSIVE NatOf(_)
NatOf(ds) ==
    IF ds = <<>> THEN 0 ELSE 10 * NatOf(SubSeq(ds, 1, Len(ds) - 1)) + DigitVal(ds[Len(ds)])

\* the digits of a natural number
RECURSIVE DigitsOf(_)
DigitsOf(n) ==
    IF n < 10 THEN <<DigitChar(n)>> ELSE DigitsOf(n \div 10) \o <<DigitChar(n % 10)>>

\* an Option: Some(x) or None
Some(x) == [some |-> TRUE, x |-> x]
None == [some |-> FALSE]

\* str::parse::<i128>: an optional sign, then one or more digits, within i128
ParseI128(s) ==
    LET signed == s # <<>> /\ Head(s) \in {"-", "+"}
        neg == s # <<>> /\ Head(s) = "-"
        ds == IF signed THEN Tail(s) ELSE s
        mag == StripZeros(ds)
    IN IF ds = <<>> \/ ~AllDigits(ds) THEN None
       ELSE IF neg /\ ~MagLeq(mag, I128MinMag) THEN None
       ELSE IF ~neg /\ ~MagLeq(mag, MagPred(I128MinMag)) THEN None
       ELSE Some([neg |-> neg /\ mag # <<>>, mag |-> mag])

\* Value::as_i128
as_i128(v) == IF v.t # "Num" THEN None ELSE ParseI128(v.s)

(* str::parse::<f64> on decimal text: an optional sign, digits with an      *)
(* optional point (a digit on one side at least), an optional exponent; or *)
(* inf, infinity, nan.  A float is kept as its sign, its significant       *)
(* digits sig (no zero at either end; empty for zero) and the exponent e10 *)
(* of its first digit: d.ddd * 10^e10.                                     *)

kwinf == <<"i", "n", "f">>
kwinfinity == <<"i", "n", "f", "i", "n", "i", "t", "y">>
kwnan == <<"n", "a", "n">>

F64Inf(neg) == [class |-> "inf", neg |-> neg, sig |-> <<>>, e10 |-> 0]
F64NaN == [class |-> "nan", neg |-> FALSE, sig |-> <<>>, e10 |-> 0]
F64Finite(neg, sig, e10) == [class |-> "finite", neg |-> neg, sig |-> sig, e10 |-> e10]

\* the first significant digits of f64::MAX plus half a unit in the last place
F64Overflow == <<"1", "7", "9", "7", "6", "9", "3", "1", "3", "4", "8", "6", "2", "3", "1", "5", "8", "0", "7", "9">>

\* the float a mantissa (integer and fraction digits) and an exponent denote;
\* f64::MAX is 1.7976931348623157e308
DecimalToF64(neg, ip, fp, ex) ==
    LET all == ip \o fp
        lead == Len(all) - Len(StripZeros(all))
        sig == StripTrailingZeros(StripZeros(all))
        e10 == Len(ip) - 1 - lead + ex
    IN IF sig = <<>> THEN F64Finite(neg, <<>>, 0)
       ELSE IF e10 > 308 THEN F64Inf(neg)
       ELSE IF e10 = 308 /\ ~LexLess(sig, F64Overflow) THEN F64Inf(neg)
       ELSE F64Finite(neg, sig, e10)

ParseF64(s) ==
    LET signed == s # <<>> /\ Head(s) \in {"-", "+"}
        neg == s # <<>> /\ Head(s) = "-"
        body == IF signed THEN Tail(s) ELSE s
        low == ToLowercase(body)
        ipEnd == RunEnd(body, 1, Digits)
        ip == SubSeq(body, 1, ipEnd - 1)
        hasPoint == ipEnd <= Len(body) /\ body[ipEnd] = "."
        fpEnd == IF hasPoint THEN RunEnd(body, ipEnd + 1, Digits) ELSE ipEnd
        fp == IF hasPoint THEN SubSeq(body, ipEnd + 1, fpEnd - 1) ELSE <<>>
        hasExp == fpEnd <= Len(body) /\ body[fpEnd] \in {"e", "E"}
        expSigned == hasExp /\ fpEnd + 1 <= Len(body) /\ body[fpEnd + 1] \in {"-", "+"}
        expNeg == expSigned /\ body[fpEnd + 1] = "-"
        expFrom == IF expSigned THEN fpEnd + 2 ELSE fpEnd + 1
        expDigits == IF hasExp THEN SubSeq(body, expFrom, Len(body)) ELSE <<>>
        ex == IF expNeg THEN 0 - NatOf(expDigits) ELSE NatOf(expDigits)
    IN IF low = kwinf \/ low = kwinfinity THEN Some(F64Inf(neg))
       ELSE IF low = kwnan THEN Some(F64NaN)
       ELSE IF ip = <<>> /\ fp = <<>> THEN None
       ELSE IF hasExp /\ (expDigits = <<>> \/ ~AllDigits(expDigits)) THEN None
       ELSE IF ~hasExp /\ fpEnd <= Len(body) THEN None
       ELSE Some(DecimalToF64(neg, ip, fp, ex))

\* Value::as_f64
as_f64(v) == IF v.t # "Num" THEN None ELSE ParseF64(v.s)

----------------------------------------------------------------------------
(* JSON values: serde_json::Value and serde_json::Number *)

JNull == [t |-> "Null"]
JBool(b) == [t |-> "Bool", b |-> b]
JNumber(n) == [t |-> "Number", n |-> n]
JString(s) == [t |-> "String", s |-> s]
JArray(xs) == [t |-> "Array", xs |-> xs]
JObject(m) == [t |-> "Object", m |-> m]

\* the process aborts: Option::unwrap on None
Panic == [t |-> "Panic"]

NInt(neg, mag) == [kind |-> "int", neg |-> neg, mag |-> mag]
NFloat(f) == [kind |-> "float", neg |-> f.neg, sig |-> f.sig, e10 |-> f.e10]

\* serde_json::Number::from_i128: a number that fits u64 or i64
from_i128(n) ==
    IF ~n.neg /\ MagLeq(n.mag, U64Max) THEN Some(NInt(FALSE, n.mag))
    ELSE IF n.neg /\ MagLeq(n.mag, I64MinMag) THEN Some(NInt(TRUE, n.mag))
    ELSE None

\* serde_json::Number::from_f64: a finite float
from_f64(f) == IF f.class = "finite" THEN Some(NFloat(f)) ELSE None

\* Option::unwrap, the abort kept as a value
Unwrap(opt) == IF opt.some THEN opt.x ELSE Panic

\* the Num arm of From<Value> for JsonValue
NumToJson(v) ==
    LET i == as_i128(v) IN
    IF i.some
    THEN LET n == Unwrap(from_i128(i.x)) IN IF n = Panic THEN Panic ELSE JNumber(n)
    ELSE LET f == Unwrap(as_f64(v)) IN
         IF f = Panic THEN Panic
         ELSE LET n == Unwrap(from_f64(f)) IN IF n = Panic THEN Panic ELSE JNumber(n)

RECURSIVE ToJson(_)

\* impl From<Value> for JsonValue; an abort inside aborts the whole conversion
ToJson(v) ==
    CASE v.t = "None" -> JNull
      [] v.t = "Bool" -> JBool(v.b)
      [] v.t = "Num" -> NumToJson(v)
      [] v.t = "Str" -> JString(v.s)
      [] v.t = "List" ->
            LET xs == [i \in 1..Len(v.xs) |-> ToJson(v.xs[i])] IN
            IF \E i \in 1..Len(xs) : xs[i] = Panic THEN Panic ELSE JArray(xs)
      [] v.t = "Obj" ->
            LET m == [i \in 1..Len(v.m) |-> Entry(v.m[i].k, ToJson(v.m[i].v))] IN
            IF \E i \in 1..Len(m) : m[i].v = Panic THEN Panic ELSE JObject(m)

\* a signed decimal exponent as text
ExpText(e) == IF e < 0 THEN <<"-">> \o DigitsOf(0 - e) ELSE DigitsOf(e)

Zeros(n) == [i \in 1..n |-> "0"]

\* ryu's shortest text of a finite float
FloatText(n) ==
    LET len == Len(n.sig)
        kk == n.e10 + 1
        k == kk - len
        sign == IF n.neg THEN <<"-">> ELSE <<>>
    IN IF n.sig = <<>> THEN sign \o <<"0", ".", "0">>
       ELSE IF 0 <= k /\ kk <= 16 THEN sign \o n.sig \o Zeros(k) \o <<".", "0">>
       ELSE IF 0 < kk /\ kk <= 16
            THEN sign \o SubSeq(n.sig, 1, kk) \o <<".">> \o SubSeq(n.sig, kk + 1, len)
       ELSE IF -5 < kk /\ kk <= 0 THEN sign \o <<"0", ".">> \o Zeros(0 - kk) \o n.sig
       ELSE IF len = 1 THEN sign \o n.sig \o <<"e">> \o ExpText(kk - 1)
       ELSE sign \o <<n.sig[1], ".">> \o Tail(n.sig) \o <<"e">> \o ExpText(kk - 1)

\* Number::to_string
NumberText(n) ==
    IF n.kind = "int"
    THEN (IF n.neg THEN <<"-">> ELSE <<>>) \o (IF n.mag = <<>> THEN <<"0">> ELSE n.mag)
    ELSE FloatText(n)

RECURSIVE FromJson(_)

\* impl From<JsonValue> for Value
FromJson(j) ==
    CASE j.t = "Null" -> VNone
      [] j.t = "Bool" -> VBool(j.b)
      [] j.t = "Number" -> VNum(NumberText(j.n))
      [] j.t = "String" -> VStr(j.s, TRUE)
      [] j.t = "Array" -> VList([i \in 1..Len(j.xs) |-> FromJson(j.xs[i])])
      [] j.t = "Object" -> VObj([i \in 1..Len(j.m) |-> Entry(j.m[i].k, FromJson(j.m[i].v))])

----------------------------------------------------------------------------
(* Inputs *)

MaxToks == 4
MaxNodes == 3

\* every sequence of at most n members of S
SeqsUpTo(S, n) == UNION {[1..k -> S] : k \in 0..n}

\* every sequence of len distinct members of K
KeySeqs(K, len) == {ks \in [1..len -> K] : \A i, j \in 1..len : i # j => ks[i] # ks[j]}

RECURSIVE ValuesOfSize(_, _, _)
RECURSIVE ValueSeqs(_, _, _)

\* every sequence of values of n nodes in all, over the scalars S and the keys K
ValueSeqs(n, S, K) ==
    IF n = 0 THEN {<<>>}
    ELSE UNION {{<<x>> \o rest : x \in ValuesOfSize(k, S, K), rest \in ValueSeqs(n - k, S, K)}
                : k \in 1..n}

\* every value of exactly n nodes
ValuesOfSize(n, S, K) ==
    IF n = 1 THEN S \cup {VList(<<>>), VObj(<<>>)}
    ELSE LET seqs == ValueSeqs(n - 1, S, K) IN
         {VList(xs) : xs \in seqs}
         \cup UNION {{VObj([i \in 1..Len(xs) |-> Entry(ks[i], xs[i])]) : ks \in KeySeqs(K, Len(xs))}
                     : xs \in seqs}

ValuesUpTo(n, S, K) == UNION {ValuesOfSize(k, S, K) : k \in 1..n}

IsContainer(v) == v.t \in {"Obj", "List"}

(* Token sequences for the parser *)

TSym(s) == [kind |-> "Sym", text |-> s]
TStr(s) == [kind |-> "Str", text |-> s]
TNum(s) == [kind |-> "Num", text |-> s]
TComment == [kind |-> "Comment", text |-> <<"c">>]
TPunct(kind) == [kind |-> kind, text |-> <<>>]

PunctKinds == {"LBrace", "RBrace", "LBrack", "RBrack", "Colon", "Comma", "Dash"}

RawTokens ==
    {TSym(<<"a">>), TSym(kwr), TStr(<<"s">>), TNum(<<"1">>), TComment}
    \cup {TPunct(k) : k \in PunctKinds}

\* the tokens one after the other, each at its own offset
Locate(q) == [i \in 1..Len(q) |-> Tok(q[i].kind, q[i].text, LocAt(i - 1))]

\* the values of the grammar the parser inputs are laid out from
ParserScalars ==
    {VNone, VBool(TRUE), VStr(<<"s">>, TRUE), VStr(<<"s">>, FALSE),
     VNum(<<"-", "1">>), VNum(<<"1">>)}

\* the scalars of the laid-out values: a keyword, the two fused forms, a literal
LayoutScalars == {VNone, VStr(<<"s">>, TRUE), VStr(<<"s">>, FALSE), VNum(<<"-", "1">>)}

\* a symbol and a string literal as key tokens
ParserKeys == {<<"a">>, <<"b", SP, "c">>}
ParserValues == ValuesUpTo(MaxNodes, LayoutScalars, ParserKeys)

\* the token a key is written as: a symbol, a number or a string literal
KeyToken(k) ==
    LET l == Lex(k) IN
    IF l.ok /\ Len(l.toks) = 1 /\ l.toks[1].kind \in {"Sym", "Num"}
    THEN Inner(l.toks[1])
    ELSE TStr(k)

\* the tokens of a scalar
ScalarTokens(v) ==
    CASE v.t = "None" -> <<TSym(kwNone)>>
      [] v.t = "Bool" -> <<TSym(IF v.b THEN kwtrue ELSE kwfalse)>>
      [] v.t = "Str" -> IF v.raw THEN <<TSym(kwr), TStr(v.s)>> ELSE <<TStr(v.s)>>
      [] v.t = "Num" -> IF Head(v.s) = "-" THEN <<TPunct("Dash"), TNum(Tail(v.s))>>
                        ELSE <<TNum(v.s)>>

RECURSIVE Layouts(_)
RECURSIVE ElemLayouts(_, _)
RECURSIVE EntryLayouts(_, _)

OptComma == {<<>>, <<TPunct("Comma")>>}

\* the elements from i on, each followed by a comma or not
ElemLayouts(xs, i) ==
    IF i > Len(xs) THEN {<<>>}
    ELSE {e \o c \o rest : e \in Layouts(xs[i]), c \in OptComma, rest \in ElemLayouts(xs, i + 1)}

\* the pairs from i on, each followed by a comma or not
EntryLayouts(m, i) ==
    IF i > Len(m) THEN {<<>>}
    ELSE {<<KeyToken(m[i].k), TPunct("Colon")>> \o e \o c \o rest :
            e \in Layouts(m[i].v), c \in OptComma, rest \in EntryLayouts(m, i + 1)}

\* every token sequence of the grammar that writes v
Layouts(v) ==
    CASE v.t = "List" ->
            {<<TPunct("LBrack")>> \o body \o <<TPunct("RBrack")>> : body \in ElemLayouts(v.xs, 1)}
      [] v.t = "Obj" ->
            {<<TPunct("LBrace")>> \o body \o <<TPunct("RBrace")>> : body \in EntryLayouts(v.m, 1)}
      [] OTHER -> {ScalarTokens(v)}

\* an object of one pair whose key position holds the token k
KeyProbe(k, v) ==
    <<TPunct("LBrace"), k, TPunct("Colon")>> \o ScalarTokens(v) \o <<TPunct("RBrace")>>

\* q with the token t put in after its i-th token
InsertAfter(q, i, t) == SubSeq(q, 1, i) \o <<t>> \o SubSeq(q, i + 1, Len(q))

----------------------------------------------------------------------------
(* The parser in mid-run: the calls of next_value and next_key_value_pair  *)
(* that have not returned yet, the cursor, the value the last call         *)
(* returned, and the highest token index looked at (by next or peek).      *)

\* a call in progress: next_value before its match (value), the loop of its
\* LBrace arm (obj) or LBrack arm (list), or next_key_value_pair (pair).  head
\* is the cursor position at the start of the loop's current iteration, prev at
\* the start of the one before
Frame(k, stage, key, acc, opening_loc, head, prev) ==
    [k |-> k, stage |-> stage, key |-> key, acc |-> acc, opening_loc |-> opening_loc,
     head |-> head, prev |-> prev]

ValueFrame == Frame("value", "start", <<>>, <<>>, StartOfFile, -1, -1)
ObjFrame(loc) == Frame("obj", "loop", <<>>, MapNew, loc, -1, -1)
ListFrame(loc) == Frame("list", "loop", <<>>, <<>>, loc, -1, -1)
PairFrame == Frame("pair", "start", <<>>, <<>>, StartOfFile, -1, -1)

\* what a call returned: nothing yet, a Result<Value, GonError>, or a
\* Result<Option<(String, Value)>, GonError>
Ret(kind, ok, some, key, val, err) ==
    [kind |-> kind, ok |-> ok, some |-> some, key |-> key, val |-> val, err |-> err]

NoRet == Ret("none", FALSE, FALSE, <<>>, NoVal, NoErr)
RetOk(v) == Ret("value", TRUE, FALSE, <<>>, v, NoErr)
RetErr(e) == Ret("value", FALSE, FALSE, <<>>, NoVal, e)
RetPairSome(k, v) == Ret("pair", TRUE, TRUE, k, v, NoErr)
RetPairNone == Ret("pair", TRUE, FALSE, <<>>, NoVal, NoErr)
RetPairErr(e) == Ret("pair", FALSE, FALSE, <<>>, NoVal, e)

NoRun == [stack |-> <<>>, it |-> NewTokenIter, ret |-> NoRet, seen |-> 0]

\* parse has called next_value and nothing else yet
StartRun == [stack |-> <<ValueFrame>>, it |-> NewTokenIter, ret |-> NoRet, seen |-> 0]

----------------------------------------------------------------------------
(* The parser under test: a token sequence is laid out, possibly damaged,  *)
(* and parsed.                                                             *)

NoConfig == [indent_amount |-> 0, indent_char |-> SP, trailing_commas |-> FALSE, max_width |-> 0]
NoJson == [t |-> "absent"]
NoResult == Err(NoErr, NewTokenIter)

Init ==
    /\ pc = "tokens"
    /\ \/ /\ value = NoVal
          /\ shape = "raw"
          /\ \E q \in SeqsUpTo(RawTokens, MaxToks) : tokens = Locate(q)
       \/ /\ value \in ParserValues
          /\ shape = "separated"
          /\ \E q \in Layouts(value) : tokens = Locate(q)
       \/ /\ value \in ParserScalars
          /\ shape = "key_probe"
          /\ \E k \in RawTokens : tokens = Locate(KeyProbe(k, value))
    /\ config = NoConfig
    /\ text = <<>>
    /\ json = NoJson
    /\ result = NoResult
    /\ run = NoRun

\* the input ends before the closing delimiter of the top-level container
Cut ==
    /\ pc = "tokens"
    /\ shape = "separated"
    /\ IsContainer(value)
    /\ tokens' = SubSeq(tokens, 1, Len(tokens) - 1)
    /\ shape' = "cut"
    /\ UNCHANGED <<pc, value, config, text, json, result, run>>

\* one more token follows the value
Trail ==
    /\ pc = "tokens"
    /\ shape = "separated"
    /\ \E t \in RawTokens : tokens' = Locate(Append(tokens, t))
    /\ shape' = "trailed"
    /\ UNCHANGED <<pc, value, config, text, json, result, run>>

\* a comma is put where none may stand: after an opening delimiter or after a comma
StrayComma ==
    /\ pc = "tokens"
    /\ shape = "separated"
    /\ \E i \in 1..Len(tokens) :
        /\ tokens[i].kind \in {"LBrace", "LBrack", "Comma"}
        /\ tokens' = Locate(InsertAfter(tokens, i, TPunct("Comma")))
    /\ shape' = "stray_comma"
    /\ UNCHANGED <<pc, value, config, text, json, result, run>>

\* parse
Parse ==
    /\ pc = "tokens"
    /\ result' = parse(tokens)
    /\ pc' = "parsed"
    /\ UNCHANGED <<tokens, value, shape, config, text, json, run>>

Next == Cut \/ Trail \/ StrayComma \/ Parse

Spec == Init /\ [][Next]_vars

----------------------------------------------------------------------------
(* The spellers under test: a value is spelled, minimally or with a        *)
(* SpellConfig, and the text is tokenized and parsed again.                *)

MaxSpellNodes == 3

TextA == <<"a">>
TextWide == <<"a", "b", SP, SP, "o", "n">>

SpellScalars ==
    {VNone, VNum(<<"-", "9", "_", "0">>)}
    \cup {VStr(s, raw) : s \in {TextA, TextWide}, raw \in BOOLEAN}

\* the empty key, a symbol, two tokens, one number token
SpellKeys == {<<>>, <<"a">>, <<"a", SP, "b">>, <<"1">>}

SpellValues == ValuesUpTo(MaxSpellNodes, SpellScalars, SpellKeys)

Configs ==
    {SpellConfig(amount, ch, commas, width) :
        amount \in {0, 1}, ch \in {SP, TAB}, commas \in BOOLEAN, width \in {0, 6}}

InitSpell ==
    /\ pc = "value"
    /\ value \in SpellValues
    /\ tokens = <<>>
    /\ shape = "none"
    /\ config = NoConfig
    /\ text = <<>>
    /\ json = NoJson
    /\ result = NoResult
    /\ run = NoRun

\* Value::min_spell
MinSpell ==
    /\ pc = "value"
    /\ text' = min_spell(value)
    /\ pc' = "min_spelled"
    /\ UNCHANGED <<tokens, value, shape, config, json, result, run>>

\* Value::spell
Spell ==
    /\ pc = "value"
    /\ \E cfg \in Configs :
        /\ config' = cfg
        /\ text' = spell(value, cfg)
    /\ pc' = "spelled"
    /\ UNCHANGED <<tokens, value, shape, json, result, run>>

\* parse_str on the text a speller wrote
Reparse ==
    /\ pc \in {"min_spelled", "spelled"}
    /\ result' = parse_str(text)
    /\ pc' = (IF pc = "min_spelled" THEN "min_reparsed" ELSE "reparsed")
    /\ UNCHANGED <<tokens, value, shape, config, text, json, run>>

NextSpell == MinSpell \/ Spell \/ Reparse

SpecSpell == InitSpell /\ [][NextSpell]_vars

----------------------------------------------------------------------------
(* The JSON bridge under test: a value is converted to JSON and back, and  *)
(* a JSON value is converted to a value.                                   *)

MaxBridgeNodes == 2
MaxJsonLen == 2

NumTexts ==
    {<<"0">>, <<"1", "2">>, <<"-", "7">>, <<"3", ".", "1", "4">>, <<"1", "e", "5">>,
     <<"-", "9", "_", "0", "0", "0">>, <<"1", "e", "9", "9", "9">>,
     U64Max, MagPred(U64Max) \o <<"6">>, <<"-">> \o I64MinMag, <<"-">> \o MagPred(I64MinMag) \o <<"9">>}

BridgeScalars ==
    {VNone, VBool(FALSE)}
    \cup {VStr(TextA, raw) : raw \in BOOLEAN}
    \cup {VNum(s) : s \in NumTexts}

BridgeKeys == {<<"a">>}

BridgeValues == ValuesUpTo(MaxBridgeNodes, BridgeScalars, BridgeKeys)

JsonScalars ==
    {JNull, JBool(TRUE), JString(TextA), JString(<<>>),
     JNumber(NInt(FALSE, <<"7">>)), JNumber(NInt(TRUE, <<"1", "2">>)),
     JNumber(NFloat(F64Finite(FALSE, <<"1", "5">>, 0))),
     JNumber(NFloat(F64Finite(TRUE, <<"2">>, 20))),
     JNumber(NFloat(F64Finite(FALSE, <<"1", "2">>, -3)))}

JsonArrays == {JArray(xs) : xs \in SeqsUpTo(JsonScalars, MaxJsonLen)}

JsonInputs ==
    JsonScalars \cup JsonArrays
    \cup {JObject(<<Entry(k, j)>>) : k \in BridgeKeys, j \in JsonScalars \cup JsonArrays}

InitBridge ==
    /\ \/ pc = "value" /\ value \in BridgeValues /\ json = NoJson
       \/ pc = "json" /\ value = NoVal /\ json \in JsonInputs
    /\ tokens = <<>>
    /\ shape = "none"
    /\ config = NoConfig
    /\ text = <<>>
    /\ result = NoResult
    /\ run = NoRun

\* JsonValue::from(value); the process may abort in it
IntoJson ==
    /\ pc = "value"
    /\ json' = ToJson(value)
    /\ pc' = (IF json' = Panic THEN "aborted" ELSE "converted")
    /\ UNCHANGED <<tokens, value, shape, config, text, result, run>>

\* Value::from(json)
FromJsonValue ==
    /\ pc \in {"json", "converted"}
    /\ result' = Ok(FromJson(json), NewTokenIter)
    /\ pc' = (IF pc = "json" THEN "from_json" ELSE "round_trip")
    /\ UNCHANGED <<tokens, value, shape, config, text, json, run>>

NextBridge == IntoJson \/ FromJsonValue

SpecBridge == InitBridge /\ [][NextBridge]_vars

----------------------------------------------------------------------------
(* The List arm of spell0 under test: a list, flat or holding one container, *)
(* is spelled at the top level or as the only element of an outer list.     *)

MaxListLen == 6

ListScalars == {VNone, VStr(TextWide, FALSE)}

ListContainers == {VList(<<>>), VObj(<<>>), VList(<<VNone>>)}

\* the flat lists, and the lists of one or two elements with a container in them
ListInputs ==
    {VList(xs) : xs \in SeqsUpTo(ListScalars, MaxListLen)}
    \cup {VList(<<c>>) : c \in ListContainers}
    \cup {VList(<<x, c>>) : x \in ListScalars, c \in ListContainers}

InitList ==
    /\ pc = "list"
    /\ value \in ListInputs
    /\ tokens = <<>>
    /\ shape = "top"
    /\ config = NoConfig
    /\ text = <<>>
    /\ json = NoJson
    /\ result = NoResult
    /\ run = NoRun

\* the list becomes the only element of an outer list
Nest ==
    /\ pc = "list"
    /\ shape = "top"
    /\ shape' = "nested"
    /\ UNCHANGED <<pc, tokens, value, config, text, json, result, run>>

\* Value::spell of the list, or of the outer list
SpellList ==
    /\ pc = "list"
    /\ \E cfg \in Configs :
        /\ config' = cfg
        /\ text' = spell(IF shape = "nested" THEN VList(<<value>>) ELSE value, cfg)
    /\ pc' = "list_spelled"
    /\ UNCHANGED <<tokens, value, shape, json, result, run>>

NextList == Nest \/ SpellList

SpecList == InitList /\ [][NextList]_vars

----------------------------------------------------------------------------
(* The Dash arm of next_value under test: a minus token stands at a value  *)
(* position (the top level, inside a list, after a key and its colon),     *)
(* followed by any tokens; the value read is spelled minimally.            *)

MaxDashTail == 2

\* what may follow the minus: every kind of token, and a number with a separator
DashFollowers == RawTokens \cup {TNum(<<"9", "_", "0">>)}

DashShapes == {"top", "in_list", "in_obj"}

\* the tokens consumed before the value position
DashPrefix(sh) ==
    CASE sh = "top" -> <<>>
      [] sh = "in_list" -> <<TPunct("LBrack")>>
      [] sh = "in_obj" -> <<TPunct("LBrace"), TSym(<<"a">>), TPunct("Colon")>>

\* source texts that open with a minus
DashSources == {<<"-", "9", "_", "0">>, <<"-", SP, "1">>, <<"-", "-", "1">>, <<"-", "a">>}

\* the cursor after n tokens were consumed
CursorAt(toks, n) == [pos |-> n, loc |-> IF n = 0 THEN StartOfFile ELSE toks[n].loc]

InitDash ==
    /\ pc = "tokens"
    /\ \/ /\ shape \in DashShapes
          /\ \E rest \in SeqsUpTo(DashFollowers, MaxDashTail) :
                tokens = Locate(DashPrefix(shape) \o <<TPunct("Dash")>> \o rest)
       \/ /\ shape = "top"
          /\ \E src \in DashSources : tokens = Lex(src).toks
    /\ value = NoVal
    /\ config = NoConfig
    /\ text = <<>>
    /\ json = NoJson
    /\ result = NoResult
    /\ run = NoRun

\* next_value, called with the cursor at the value position
NextValue ==
    /\ pc = "tokens"
    /\ result' = next_value(tokens, CursorAt(tokens, Len(DashPrefix(shape))))
    /\ pc' = "value_read"
    /\ UNCHANGED <<tokens, value, shape, config, text, json, run>>

\* Value::min_spell of the value read
MinSpellRead ==
    /\ pc = "value_read"
    /\ result.ok
    /\ text' = min_spell(result.val)
    /\ pc' = "read_spelled"
    /\ UNCHANGED <<tokens, value, shape, config, json, result, run>>

NextDash == NextValue \/ MinSpellRead

SpecDash == InitDash /\ [][NextDash]_vars

----------------------------------------------------------------------------
(* The parser run step by step: one action per call, loop head and return  *)
(* of parse, next_value and next_key_value_pair, over every token sequence.*)

MaxStepToks == 4

\* a keyword, the raw prefix, a string, a number and every punctuation token
StepTokens ==
    {TSym(kwNone), TSym(kwr), TStr(<<"s">>), TNum(<<"1">>)}
    \cup {TPunct(k) : k \in PunctKinds}

Top == run.stack[Len(run.stack)]
Popped == SubSeq(run.stack, 1, Len(run.stack) - 1)

\* the call in progress is of kind k and waits for nothing (got = "none"), or
\* for the call that has just returned a value or a pair
At(k, got) ==
    /\ pc = "running"
    /\ run.stack # <<>>
    /\ Top.k = k
    /\ run.ret.kind = got

\* the index of the token that next or peek looks at
Look(it) == it.pos + 1

\* a Result<Value, GonError> of the parser operators as a returned value
FromResult(r) == IF r.ok THEN RetOk(r.val) ELSE RetErr(r.err)

InitSteps ==
    /\ pc = "running"
    /\ \E q \in SeqsUpTo(StepTokens, MaxStepToks) : tokens = Locate(q)
    /\ value = NoVal
    /\ shape = "raw"
    /\ config = NoConfig
    /\ text = <<>>
    /\ json = NoJson
    /\ result = NoResult
    /\ run = StartRun

\* next_value up to the end of its match: a scalar arm returns, the LBrace and
\* LBrack arms enter their loop
StepValue ==
    /\ At("value", "none")
    /\ IF ~HasNext(tokens, run.it)
       THEN run' = [run EXCEPT !.stack = Popped, !.ret = RetErr(NoValueErr),
                               !.seen = Max(@, Look(run.it))]
       ELSE LET first_token == Peek(tokens, run.it)
                it == Advance(tokens, run.it)
            IN CASE first_token.kind = "Sym" ->
                    LET r == SymValue(tokens, first_token, it) IN
                    run' = [stack |-> Popped, it |-> r.it, ret |-> FromResult(r),
                            seen |-> Max(run.seen,
                                         IF ToLowercase(first_token.text) = kwr
                                         THEN Look(it) ELSE it.pos)]
                 [] first_token.kind = "Str" ->
                    run' = [stack |-> Popped, it |-> it,
                            ret |-> RetOk(VStr(first_token.text, FALSE)),
                            seen |-> Max(run.seen, it.pos)]
                 [] first_token.kind = "Num" ->
                    run' = [stack |-> Popped, it |-> it,
                            ret |-> RetOk(VNum(first_token.text)),
                            seen |-> Max(run.seen, it.pos)]
                 [] first_token.kind = "Dash" ->
                    LET r == DashValue(tokens, first_token, it) IN
                    run' = [stack |-> Popped, it |-> r.it, ret |-> FromResult(r),
                            seen |-> Max(run.seen, Look(it))]
                 [] first_token.kind = "LBrace" ->
                    run' = [stack |-> Append(Popped, ObjFrame(it.loc)), it |-> it,
                            ret |-> NoRet, seen |-> Max(run.seen, it.pos)]
                 [] first_token.kind = "LBrack" ->
                    run' = [stack |-> Append(Popped, ListFrame(it.loc)), it |-> it,
                            ret |-> NoRet, seen |-> Max(run.seen, it.pos)]
                 [] OTHER ->
                    run' = [stack |-> Popped, it |-> it,
                            ret |-> RetErr(UnexpectedToken(Inner(first_token), first_token.loc)),
                            seen |-> Max(run.seen, it.pos)]
    /\ UNCHANGED <<pc, tokens, value, shape, config, text, json, result>>

\* the head of the loop of the LBrace arm: the closing brace ends the loop,
\* anything else calls next_key_value_pair
StepObjHead ==
    /\ At("obj", "none")
    /\ IF PeekIs(tokens, run.it, "RBrace")
       THEN run' = [stack |-> Popped, it |-> Advance(tokens, run.it),
                    ret |-> RetOk(VObj(Top.acc)), seen |-> Max(run.seen, Look(run.it))]
       ELSE run' = [run EXCEPT
                        !.stack = Append(Popped, [Top EXCEPT !.prev = Top.head,
                                                             !.head = run.it.pos])
                                  \o <<PairFrame>>,
                        !.seen = Max(@, Look(run.it))]
    /\ UNCHANGED <<pc, tokens, value, shape, config, text, json, result>>

\* next_key_value_pair up to its call of next_value
StepPairKey ==
    /\ At("pair", "none")
    /\ Top.stage = "start"
    /\ IF ~HasNext(tokens, run.it)
       THEN run' = [run EXCEPT !.stack = Popped, !.ret = RetPairNone,
                               !.seen = Max(@, Look(run.it))]
       ELSE LET token == Peek(tokens, run.it)
                it1 == Advance(tokens, run.it)
                key == KeyOf(token)
                it2 == Advance(tokens, it1)
            IN IF token.kind = "Comment"
               THEN run' = [stack |-> Popped, it |-> it1,
                            ret |-> RetPairErr(UnexpectedToken(Inner(token), it1.loc)),
                            seen |-> Max(run.seen, it1.pos)]
               ELSE IF ~PeekIs(tokens, it1, "Colon")
               THEN run' = [stack |-> Popped, it |-> it2,
                            ret |-> RetPairErr(MissingColon(key, it2.loc)),
                            seen |-> Max(run.seen, Look(it1))]
               ELSE run' = [stack |-> Append(Popped, [Top EXCEPT !.stage = "value",
                                                                 !.key = key])
                                      \o <<ValueFrame>>,
                            it |-> it2, ret |-> NoRet, seen |-> Max(run.seen, it2.pos)]
    /\ UNCHANGED <<pc, tokens, value, shape, config, text, json, result>>

\* next_key_value_pair after next_value returned
StepPairValue ==
    /\ At("pair", "value")
    /\ run' = [run EXCEPT
                !.stack = Popped,
                !.ret = IF run.ret.ok THEN RetPairSome(Top.key, run.ret.val)
                        ELSE RetPairErr(MissingValue(Top.key, run.it.loc))]
    /\ UNCHANGED <<pc, tokens, value, shape, config, text, json, result>>

\* the loop of the LBrace arm after next_key_value_pair returned
StepObjPair ==
    /\ At("obj", "pair")
    /\ IF ~run.ret.ok
       THEN run' = [run EXCEPT !.stack = Popped, !.ret = RetErr(run.ret.err)]
       ELSE IF ~run.ret.some
       THEN run' = [run EXCEPT !.stack = Popped,
                               !.ret = RetErr(UnclosedDelimiter("}", Top.opening_loc))]
       ELSE run' = [stack |-> Append(Popped, [Top EXCEPT
                                    !.acc = MapInsert(@, run.ret.key, run.ret.val)]),
                    it |-> consume_optional_comma(tokens, run.it),
                    ret |-> NoRet,
                    seen |-> Max(run.seen, Look(run.it))]
    /\ UNCHANGED <<pc, tokens, value, shape, config, text, json, result>>

\* the head of the loop of the LBrack arm: the closing bracket ends the loop,
\* anything else calls next_value
StepListHead ==
    /\ At("list", "none")
    /\ IF PeekIs(tokens, run.it, "RBrack")
       THEN run' = [stack |-> Popped, it |-> Advance(tokens, run.it),
                    ret |-> RetOk(VList(Top.acc)), seen |-> Max(run.seen, Look(run.it))]
       ELSE run' = [run EXCEPT
                        !.stack = Append(Popped, [Top EXCEPT !.prev = Top.head,
                                                             !.head = run.it.pos])
                                  \o <<ValueFrame>>,
                        !.seen = Max(@, Look(run.it))]
    /\ UNCHANGED <<pc, tokens, value, shape, config, text, json, result>>

\* the loop of the LBrack arm after next_value returned, were an element that
\* fails to parse skipped instead of ending the list
StepListElemSkipping ==
    /\ At("list", "value")
    /\ IF ~run.ret.ok
       THEN run' = [run EXCEPT !.ret = NoRet]
       ELSE run' = [stack |-> Append(Popped, [Top EXCEPT !.acc = Append(@, run.ret.val)]),
                    it |-> consume_optional_comma(tokens, run.it),
                    ret |-> NoRet,
                    seen |-> Max(run.seen, Look(run.it))]
    /\ UNCHANGED <<pc, tokens, value, shape, config, text, json, result>>

\* the loop of the LBrack arm after next_value returned
StepListElem ==
    /\ At("list", "value")
    /\ IF ~run.ret.ok
       THEN run' = [run EXCEPT !.stack = Popped,
                               !.ret = RetErr(UnclosedDelimiter("]", Top.opening_loc))]
       ELSE run' = [stack |-> Append(Popped, [Top EXCEPT !.acc = Append(@, run.ret.val)]),
                    it |-> consume_optional_comma(tokens, run.it),
                    ret |-> NoRet,
                    seen |-> Max(run.seen, Look(run.it))]
    /\ UNCHANGED <<pc, tokens, value, shape, config, text, json, result>>

\* parse after next_value returned: the error, the leftover token, or the value
StepFinish ==
    /\ pc = "running"
    /\ run.stack = <<>>
    /\ run.ret.kind = "value"
    /\ IF ~run.ret.ok
       THEN /\ result' = Err(run.ret.err, run.it)
            /\ run' = run
       ELSE IF HasNext(tokens, run.it)
       THEN LET it == Advance(tokens, run.it) IN
            /\ result' = Err(LeftoverTokens(Inner(Peek(tokens, run.it)), it.loc), it)
            /\ run' = [run EXCEPT !.it = it, !.seen = Max(@, it.pos)]
       ELSE /\ result' = Ok(run.ret.val, run.it)
            /\ run' = [run EXCEPT !.seen = Max(@, Look(run.it))]
    /\ pc' = "done"
    /\ UNCHANGED <<tokens, value, shape, config, text, json>>

NextSteps ==
    \/ StepValue \/ StepObjHead \/ StepPairKey \/ StepPairValue \/ StepObjPair
    \/ StepListHead \/ StepListElem \/ StepFinish

\* the parser is not preempted: a run that can take a step takes it
SpecSteps == InitSteps /\ [][NextSteps]_vars /\ WF_vars(NextSteps)

----------------------------------------------------------------------------
(* Properties of the parser, checked under Spec *)

LastToken == tokens[Len(tokens)]

\* the closing character of the top-level container
ClosingOf(v) == IF v.t = "Obj" THEN "}" ELSE "]"

\* C5: at key position a string, number or symbol token becomes the key with its
\* text, and a token of any other kind ({ [ ] : , - and comments) makes parse
\* fail with UnexpectedToken.
C5_KeyTokenKinds ==
    (pc = "parsed" /\ shape = "key_probe") =>
        IF tokens[2].kind \in {"Str", "Num", "Sym"}
        THEN /\ result.ok
             /\ result.val = VObj(<<Entry(tokens[2].text, value)>>)
        ELSE tokens[2].kind # "RBrace" =>
             /\ ~result.ok
             /\ result.err.kind = "UnexpectedToken"

\* C6: a top-level object (list) whose input ends before the closing delimiter,
\* after any number of pairs (elements) each with or without a comma, fails with
\* UnclosedDelimiter carrying '}' (']') and the location of the opening token.
C6_UnclosedDelimiter ==
    (pc = "parsed" /\ shape = "cut") =>
        /\ ~result.ok
        /\ result.err = UnclosedDelimiter(ClosingOf(value), tokens[1].loc)

C6_Witness ==
    /\ pc = "parsed"
    /\ shape = "cut"
    /\ value.t = "Obj"
    /\ Len(value.m) >= 1
    /\ LastToken.kind = "Comma"
    /\ result.err = UnclosedDelimiter("}", tokens[1].loc)
    /\ result.it.loc # tokens[1].loc

\* C7: a complete value followed by at least one more token fails with
\* LeftoverTokens carrying the first token after the value and that token's own
\* location; parse returns a value only when it consumed every token.
C7_LeftoverTokens ==
    pc = "parsed" =>
        /\ shape = "trailed" =>
            /\ ~result.ok
            /\ result.err = LeftoverTokens(Inner(LastToken), LastToken.loc)
        /\ \A n \in 1..(Len(tokens) - 1) :
            parse(SubSeq(tokens, 1, n)).ok =>
                /\ ~result.ok
                /\ result.err = LeftoverTokens(Inner(tokens[n + 1]), tokens[n + 1].loc)
        /\ result.ok => result.it.pos = Len(tokens)

C7_Witness ==
    /\ pc = "parsed"
    /\ shape = "trailed"
    /\ IsContainer(value)
    /\ Len(tokens) >= 4
    /\ result.err = LeftoverTokens(Inner(LastToken), LastToken.loc)
    /\ LastToken.loc # tokens[Len(tokens) - 1].loc

\* C8: with a comma or none after each pair or element, the last included, the
\* input parses to the same value; a comma right after the opening delimiter or
\* right after another comma makes parse fail.
C8_OptionalCommas ==
    pc = "parsed" =>
        /\ shape = "separated" => (result.ok /\ result.val = value)
        /\ shape = "stray_comma" => ~result.ok

C8_Witness ==
    /\ pc = "parsed"
    /\ shape = "separated"
    /\ value.t = "Obj"
    /\ Len(value.m) = 2
    /\ \A i \in 1..Len(tokens) : tokens[i].kind # "Comma"
    /\ result.ok
    /\ result.val = value

----------------------------------------------------------------------------
(* Properties of the spellers, checked under SpecSpell *)

\* the key text tokenizes as exactly one symbol token
IsSingleSymbol(k) ==
    LET l == Lex(k) IN l.ok /\ Len(l.toks) = 1 /\ l.toks[1].kind = "Sym"

\* a key as written by the rule "bare only if the bare text is one symbol token"
SymbolOrQuoted(k) == IF IsSingleSymbol(k) THEN k ELSE <<DQ>> \o k \o <<DQ>>

\* C1: tokenizing and parsing min_spell(v) succeeds and yields v, for every v:
\* raw and plain strings, signed number texts, objects with any keys (the empty
\* key and keys that are one non-symbol token included), lists, nested.
C1_MinSpellRoundTrip ==
    pc = "min_reparsed" => (result.ok /\ result.val = value)

\* C2: parsing spell(v, cfg) succeeds and yields v, for every v and every cfg
\* (max_width 0 included); strings keep their text and their raw flag.
C2_SpellRoundTrip ==
    pc = "reparsed" => (result.ok /\ result.val = value)

\* C4: a raw string is spelled as r followed by the tokenizer's spelling of the
\* string under every SpellConfig, max_width 0 included; with max_width 0 a
\* string that is not raw is spelled as the tokenizer spells it, without prefix.
C4_RawStringSpelling ==
    (pc = "spelled" /\ value.t = "Str") =>
        /\ value.raw => text = <<"r">> \o StrSpelling(value.s)
        /\ (~value.raw /\ config.max_width = 0) => text = StrSpelling(value.s)

\* C9: both spellers write an object key bare exactly when its text tokenizes as
\* one symbol token, and inside double quotes otherwise (more than one token, a
\* tokenizer failure, no token at all, or one token that is not a symbol).
C9_KeyQuoting ==
    (pc \in {"min_spelled", "spelled"} /\ value.t = "Obj" /\ Len(value.m) >= 1) =>
        LET shown == SymbolOrQuoted(value.m[1].k) \o <<":">>
            start == IF pc = "min_spelled" THEN 2 ELSE 3 + config.indent_amount
        IN SubSeq(text, start, start + Len(shown) - 1) = shown

----------------------------------------------------------------------------
(* Properties of the JSON bridge, checked under SpecBridge *)

RECURSIVE NoRawStr(_)

\* no string of the value is raw
NoRawStr(v) ==
    CASE v.t = "Str" -> ~v.raw
      [] v.t = "List" -> \A i \in 1..Len(v.xs) : NoRawStr(v.xs[i])
      [] v.t = "Obj" -> \A i \in 1..Len(v.m) : NoRawStr(v.m[i].v)
      [] OTHER -> TRUE

\* C3: a raw string converted to JSON and back is the same text with raw = false,
\* and every string the JSON-to-Value conversion produces has raw = false.
C3_BridgeDropsRaw ==
    /\ (pc = "round_trip" /\ value.t = "Str" /\ value.raw) =>
            result.val = VStr(value.s, FALSE)
    /\ pc \in {"from_json", "round_trip"} => NoRawStr(result.val)

\* C10: converting Num(text) to a JSON number never aborts the process, whatever
\* the text: digit separators, integers beyond 64 bits, floats that are not finite.
C10_NumToJsonNeverAborts ==
    (pc \in {"converted", "aborted"} /\ value.t = "Num") => json # Panic

----------------------------------------------------------------------------
(* Properties of the list layout, checked under SpecList *)

RECURSIVE OnOneLine(_, _, _)
RECURSIVE OnePerLine(_, _, _, _)

\* the elements from i on, separated by a comma and a space, none after the last
OnOneLine(xs, i, cfg) ==
    IF i > Len(xs) THEN <<>>
    ELSE spell0(xs[i], 0, cfg)
         \o (IF i < Len(xs) THEN <<",", SP>> ELSE <<>>)
         \o OnOneLine(xs, i + 1, cfg)

\* the elements from i on, each on a line of its own at the indent, a comma
\* after each but the last, and after the last iff trailing_commas
OnePerLine(xs, i, indent, cfg) ==
    IF i > Len(xs) THEN <<>>
    ELSE gen_indent(indent, cfg) \o spell0(xs[i], indent, cfg)
         \o (IF i < Len(xs) \/ cfg.trailing_commas THEN <<",">> ELSE <<>>) \o <<NL>>
         \o OnePerLine(xs, i + 1, indent, cfg)

\* at most 5 elements, none of them an Obj or a List
ShortAndFlat(xs) == Len(xs) <= 5 /\ \A i \in 1..Len(xs) : ~IsContainer(xs[i])

\* the layout of a list at current_indent
ListLayout(xs, current_indent, cfg) ==
    IF xs = <<>> THEN <<"[", "]">>
    ELSE IF ShortAndFlat(xs) THEN <<"[">> \o OnOneLine(xs, 1, cfg) \o <<"]">>
    ELSE <<"[", NL>> \o OnePerLine(xs, 1, current_indent + cfg.indent_amount, cfg)
         \o gen_indent(current_indent, cfg) \o <<"]">>

HasNewline(txt) == \E i \in 1..Len(txt) : txt[i] = NL

\* C11: spell writes the empty list as [], a list of at most 5 elements none of
\* which is an Obj or a List on one line (", " between elements, no comma after
\* the last, no newline), and every other list with one element per line at
\* current_indent + indent_amount, a comma after the last element iff
\* trailing_commas, and the closing ] at current_indent.
C11_ListLayout ==
    pc = "list_spelled" =>
        LET current_indent == IF shape = "nested" THEN config.indent_amount ELSE 0
            layout == ListLayout(value.xs, current_indent, config)
        IN /\ text = IF shape = "nested"
                     THEN <<"[", NL>> \o gen_indent(current_indent, config) \o layout
                          \o (IF config.trailing_commas THEN <<",">> ELSE <<>>)
                          \o <<NL, "]">>
                     ELSE layout
           /\ (value.xs # <<>> /\ ShortAndFlat(value.xs)) => ~HasNewline(layout)

\* the layout alone, whatever the elements' own text holds
C11_LayoutShape ==
    pc = "list_spelled" =>
        LET current_indent == IF shape = "nested" THEN config.indent_amount ELSE 0
            layout == ListLayout(value.xs, current_indent, config)
        IN text = IF shape = "nested"
                  THEN <<"[", NL>> \o gen_indent(current_indent, config) \o layout
                       \o (IF config.trailing_commas THEN <<",">> ELSE <<>>)
                       \o <<NL, "]">>
                  ELSE layout

----------------------------------------------------------------------------
(* Properties of the Dash arm, checked under SpecDash *)

\* C12: at a value position a minus token followed at once by a number token of
\* text t is read as the one value Num("-" + t), t verbatim, both tokens
\* consumed, and min_spell of that value is "-" + t; a minus followed by any
\* other token, or by the end of the input, fails with UnexpectedToken of the
\* minus token at the minus token's location, the following token not consumed.
C12_NegativeNumbers ==
    pc \in {"value_read", "read_spelled"} =>
        LET n == Len(DashPrefix(shape))
            dash == tokens[n + 1]
        IN IF Len(tokens) >= n + 2 /\ tokens[n + 2].kind = "Num"
           THEN /\ result.ok
                /\ result.val = VNum(<<"-">> \o tokens[n + 2].text)
                /\ result.it.pos = n + 2
                /\ pc = "read_spelled" => text = <<"-">> \o tokens[n + 2].text
           ELSE /\ ~result.ok
                /\ result.err = UnexpectedToken(Inner(dash), dash.loc)
                /\ result.it.pos = n + 1

\* a minus and a number with a digit separator, read inside a list before
\* another token and spelled again
C12_Witness ==
    /\ pc = "read_spelled"
    /\ shape = "in_list"
    /\ Len(tokens) = 4
    /\ tokens[3].text = <<"9", "_", "0">>
    /\ text = <<"-", "9", "_", "0">>

----------------------------------------------------------------------------
(* Properties of the parser run step by step, checked under SpecSteps *)

\* the run agrees with parse computed in one go
StepsAgreeWithParse == pc = "done" => result = parse(tokens)

\* every iteration of an object loop or a list loop starts further on in the
\* tokens than the iteration before it
LoopsAdvance ==
    \A i \in 1..Len(run.stack) :
        (run.stack[i].k \in {"obj", "list"} /\ run.stack[i].head >= 0) =>
            run.stack[i].prev < run.stack[i].head

\* no token beyond the one after the consumed tokens was ever looked at
OneTokenLookahead == run.seen <= run.it.pos + 1

NestedFailure ==
    /\ pc = "running"
    /\ run.stack # <<>>
    /\ run.ret.kind = "value"
    /\ ~run.ret.ok

\* the error the outermost container turns a nested failure into: for a list
\* UnclosedDelimiter at its opening bracket, for an object MissingValue of the
\* pair being read at the token consumed last
MaskedError ==
    IF run.stack[1].k = "list"
    THEN UnclosedDelimiter("]", tokens[1].loc)
    ELSE MissingValue(run.stack[2].key, tokens[run.it.pos].loc)

\* C14: when parsing a value nested inside a container fails, with whatever
\* error, parse returns the error of the outermost container alone:
\* UnclosedDelimiter(']') at the top-level [ for a list, MissingValue of the
\* top-level pair being read at the last consumed token for an object; so parse
\* returns NoValueErr only for no tokens at all and InvalidValue only when the
\* top-level value is itself a bare symbol.
C14_ErrorMasking ==
    /\ StepsAgreeWithParse
    /\ NestedFailure => (~parse(tokens).ok /\ parse(tokens).err = MaskedError)
    /\ (pc = "done" /\ ~result.ok /\ result.err.kind = "NoValueErr") => tokens = <<>>
    /\ (pc = "done" /\ ~result.ok /\ result.err.kind = "InvalidValue") =>
            (tokens[1].kind = "Sym" /\ result.err = InvalidValue(tokens[1].text, tokens[1].loc))

\* inside a top-level list an object's pair has run out of tokens for its value
C14_Witness ==
    /\ NestedFailure
    /\ Len(run.stack) = 3
    /\ run.stack[1].k = "list"
    /\ run.stack[2].k = "obj"
    /\ run.ret.err = NoValueErr
    /\ parse(tokens).err = UnclosedDelimiter("]", tokens[1].loc)

====
